---- MODULE Spec2Model ----
(***************************************************************************)
(* Model of source/game.cpp: the struct-of-arrays scene (Entities), the    *)
(* MoveSystem, the grid-accelerated AvoidanceSystem and the C entry points *)
(* game_initialize / game_destroy / game_update.                           *)
(*                                                                         *)
(* Numbers.  PositionComponent and MoveComponent hold floats, and a float  *)
(* sum is rounded to the nearest representable value.  The model keeps     *)
(* positions on a lattice of 1/Unit world units, which stands for the      *)
(* spacing of the floats, and velocities in lattice steps per second;      *)
(* deltaTime is counted in ticks of 1/TimeUnit second.  Every product      *)
(* velocity * deltaTime is rounded to the lattice before it is added       *)
(* (RoundDiv), so a displacement below half a step is lost as it is in a   *)
(* float sum; every float -> unsigned cast truncates (ToUnsignedDiv), and  *)
(* unsigned values keep their 32 bits.                                     *)
(***************************************************************************)
EXTENDS Integers, Sequences, FiniteSets, TLC

\* ------------------------------------------------------------- bounds
\* Scaled-down population (the source has 1000000 and 20).
kObjectCount == 2
kAvoidCount == 2
\* Number of game_update calls explored.
MaxFrames == 2
\* Number of game_initialize calls explored.
MaxInitCalls == 2

\* ---------------------------------------------------------- constants
Unit == 10
TimeUnit == 100
xMin == -128
xMax == 128
yMin == -64
yMax == 64
kAvoidDistance == 13
kCellCount == 64
kShiftAmount == 6
kGridCellSize == << (xMax - xMin) \div kCellCount, (yMax - yMin) \div kCellCount >>

PopulationSize == kObjectCount + kAvoidCount
EntityIds == 0 .. (PopulationSize - 1)
RegularIds == 0 .. (kObjectCount - 1)
HazardIds == kObjectCount .. (PopulationSize - 1)

\* deltaTime values handed to game_update, in ticks: far below one lattice
\* step of displacement, one second, and long enough to cross the world.
DeltaTimes == {1, 100, 1000000}

VARIABLES
    s_Objects,        \* the scene: m_Positions, m_Sprites, m_Moves, m_IdGenerator
    avoidEntityGrid,  \* static bucket storage of AvoidanceSystem::UpdateSystem
    activeAvoidCount, \* the occupancy counters of the latest rebuild
    cellsUsed,        \* grid coordinates the latest pass used to reach a bucket
    posData,          \* caller's output buffers
    spriteData,
    returned,         \* game_update's latest return value
    pc,               \* position inside game_update: idle, moved, avoided
    deltaTime,        \* argument of the game_update call in progress
    frames,           \* game_update calls started
    before,           \* the scene as it was before the latest system pass
    issued,           \* identifiers the latest game_initialize got from AddEntity
    heapOverrun,      \* game_initialize wrote past the end of the arrays
    convNeg,          \* what this build's float -> unsigned cast does below 0
    twin,             \* second instance, stepped in lockstep
    twinLeftover,     \* what its static bucket storage held before the pass
    twinPosData,
    twinSpriteData

vars == << s_Objects, avoidEntityGrid, activeAvoidCount, cellsUsed, posData,
           spriteData, returned, pc, deltaTime, frames, before, issued,
           heapOverrun, convNeg, twin, twinLeftover, twinPosData, twinSpriteData >>

\* ------------------------------------------------------ float arithmetic
\* n / d rounded to the nearest integer, ties to even (IEEE default), d > 0.
RoundDiv(n, d) ==
    LET q == n \div d
        r == n % d
    IN  IF 2 * r < d THEN q
        ELSE IF 2 * r > d THEN q + 1
        ELSE IF q % 2 = 0 THEN q ELSE q + 1

\* move.velx * deltaTime, as the float that is added to a position.
Displacement(vel, dt) == RoundDiv(vel * dt, TimeUnit)

\* move.velx * deltaTime * 1.1f, as the float that is added to a position.
Nudge(vel, dt) == RoundDiv(vel * dt * 11, TimeUnit * 10)

\* (unsigned int)(f) / cell for the float f = n / Unit and cell in {2, 4}.
\* The cast truncates towards zero.  When the truncated value is negative the
\* cast is undefined: this build either wraps it modulo 2^32 (x86-64:
\* cvttss2si into a 64-bit register, low half kept) or saturates it to 0
\* (AArch64: fcvtzu).  2^32 / cell is written half + half so that no
\* intermediate value leaves 32 bits.
ToUnsignedDiv(n, cell) ==
    LET t == IF n >= 0 THEN n \div Unit ELSE -((-n) \div Unit)
        half == (2^30 \div cell) * 2
    IN  IF t >= 0 THEN t \div cell
        ELSE IF convNeg = "wrap" THEN half + (half + (t \div cell))
        ELSE 0

\* c - ((c & kCellCount) >> kShiftAmount)
WrapCell(c) == c - ((c \div kCellCount) % 2)

RECURSIVE BitOr(_, _)
BitOr(a, b) ==
    IF a = 0 THEN b
    ELSE IF b = 0 THEN a
    ELSE (IF a % 2 = 1 \/ b % 2 = 1 THEN 1 ELSE 0) + 2 * BitOr(a \div 2, b \div 2)

\* x << kShiftAmount | y.  Every x that reaches the statement is below 2^26, so
\* the shift loses no bit of the 32.
Hash(x, y) == BitOr(x * (2^kShiftAmount), y)

\* ---------------------------------------------------------------- Entities
Size(arr) == Cardinality(DOMAIN arr)

ZeroPosition == [x |-> 0, y |-> 0]
ZeroSprite == [colorR |-> 0, colorG |-> 0, colorB |-> 0, spriteIndex |-> 0]
ZeroMove == [velx |-> 0, vely |-> 0]

\* std::vector::resize(n): keeps the first n elements, value-initialises the rest
Resize(arr, n, zero) ==
    [i \in 0 .. (n - 1) |-> IF i \in DOMAIN arr THEN arr[i] ELSE zero]

\* Faulty variant of reserve for C6: grows every array by n elements.
reserveAppend(objs, n) ==
    [objs EXCEPT !.m_Positions = Resize(objs.m_Positions, Size(objs.m_Positions) + n, ZeroPosition),
                 !.m_Sprites = Resize(objs.m_Sprites, Size(objs.m_Sprites) + n, ZeroSprite),
                 !.m_Moves = Resize(objs.m_Moves, Size(objs.m_Moves) + n, ZeroMove)]

reserve(objs, n) ==
    [objs EXCEPT !.m_Positions = Resize(objs.m_Positions, n, ZeroPosition),
                 !.m_Sprites = Resize(objs.m_Sprites, n, ZeroSprite),
                 !.m_Moves = Resize(objs.m_Moves, n, ZeroMove)]

\* The k-th AddEntity() of a game_initialize call that starts with generator g.
AddEntity(g, k) == g + k

EmptyScene ==
    [m_Positions |-> << >>, m_Sprites |-> << >>, m_Moves |-> << >>,
     m_IdGenerator |-> 0]

InBounds(p) ==
    /\ xMin * Unit <= p.x /\ p.x <= xMax * Unit
    /\ yMin * Unit <= p.y /\ p.y <= yMax * Unit

\* --------------------------------------------------------------- MoveSystem
\* Faulty variant of BounceAxis for C3: the upper face mirrors the velocity
\* and leaves the position where it is.
BounceAxisNoClamp(p, v, lo, hi) ==
    LET a == IF p < lo THEN [p |-> lo, v |-> -v] ELSE [p |-> p, v |-> v]
    IN  IF a.p > hi THEN [p |-> a.p, v |-> -(a.v)] ELSE a

\* The two face checks of one axis, in source order: the lower face, then the
\* upper face on the value the first check left.
BounceAxis(p, v, lo, hi) ==
    LET a == IF p < lo THEN [p |-> lo, v |-> -v] ELSE [p |-> p, v |-> v]
    IN  IF a.p > hi THEN [p |-> hi, v |-> -(a.v)] ELSE a

\* pos.x + move.velx * deltaTime, before the face checks
Integrated(p, v, dt) == p + Displacement(v, dt)

\* Faulty variant of MoveEntity for C5: the y axis is checked against the x
\* bounds.
MoveEntitySharedBounds(pos, move, dt) ==
    LET bx == BounceAxis(pos.x + Displacement(move.velx, dt), move.velx,
                         xMin * Unit, xMax * Unit)
        by == BounceAxis(pos.y + Displacement(move.vely, dt), move.vely,
                         xMin * Unit, xMax * Unit)
    IN  [pos |-> [x |-> bx.p, y |-> by.p], move |-> [velx |-> bx.v, vely |-> by.v]]

MoveEntity(pos, move, dt) ==
    LET bx == BounceAxis(Integrated(pos.x, move.velx, dt), move.velx,
                         xMin * Unit, xMax * Unit)
        by == BounceAxis(Integrated(pos.y, move.vely, dt), move.vely,
                         yMin * Unit, yMax * Unit)
    IN  [pos |-> [x |-> bx.p, y |-> by.p], move |-> [velx |-> bx.v, vely |-> by.v]]

MoveSystemUpdate(objs, dt) ==
    LET done == [io \in EntityIds |->
                    MoveEntity(objs.m_Positions[io], objs.m_Moves[io], dt)]
    IN  [objs EXCEPT
          !.m_Positions = [io \in DOMAIN objs.m_Positions |->
                              IF io \in EntityIds THEN done[io].pos ELSE @[io]],
          !.m_Moves = [io \in DOMAIN objs.m_Moves |->
                              IF io \in EntityIds THEN done[io].move ELSE @[io]]]

\* ---------------------------------------------------------- AvoidanceSystem
\* avoidEntityGrid[kCellCount * kCellCount][kAvoidCount] is one block of
\* EntityIDs, row after row.  The model keeps the slots that differ from what
\* the block held at first: [fill |-> that content, at |-> flat index -> id].
\* Static storage starts zeroed.
ZeroedGrid == [fill |-> 0, at |-> << >>]

ReadSlot(grid, hash, slot) ==
    LET flat == hash * kAvoidCount + slot
    IN  IF flat \in DOMAIN grid.at THEN grid.at[flat] ELSE grid.fill

WriteSlot(grid, hash, slot, id) ==
    LET flat == hash * kAvoidCount + slot
    IN  [grid EXCEPT !.at = [f \in (DOMAIN grid.at) \cup {flat} |->
                                IF f = flat THEN id ELSE grid.at[f]]]

\* Faulty variant of FreshCounts for C4: the counters are static like the
\* grid, and a rebuild starts from the counts of the call before.
StaleCounts == activeAvoidCount

\* unsigned int activeAvoidCount[kCellCount * kCellCount] = { 0 }: the counters
\* a rebuild starts from.  Cells that are not in the map hold 0.
FreshCounts == << >>

CountAt(counts, hash) == IF hash \in DOMAIN counts THEN counts[hash] ELSE 0

Increment(counts, hash) ==
    [h \in (DOMAIN counts) \cup {hash} |->
        IF h = hash THEN CountAt(counts, hash) + 1 ELSE counts[h]]

\* topRight and bottomLeft of a hazard's footprint, each << x, y >>
TopRight(p) ==
    << WrapCell(ToUnsignedDiv(p.x + kAvoidDistance - xMin * Unit, kGridCellSize[1])),
       WrapCell(ToUnsignedDiv(p.y + kAvoidDistance - yMin * Unit, kGridCellSize[2])) >>

BottomLeft(p) ==
    << WrapCell(ToUnsignedDiv(p.x - kAvoidDistance - xMin * Unit, kGridCellSize[1])),
       WrapCell(ToUnsignedDiv(p.y - kAvoidDistance - yMin * Unit, kGridCellSize[2])) >>

\* The cells the two nested loops visit, in loop order (y outer, x inner).
FootprintCells(p) ==
    LET bl == BottomLeft(p)
        tr == TopRight(p)
        nx == IF bl[1] <= tr[1] THEN tr[1] - bl[1] + 1 ELSE 0
        ny == IF bl[2] <= tr[2] THEN tr[2] - bl[2] + 1 ELSE 0
    IN  [k \in 1 .. (nx * ny) |-> << bl[1] + ((k - 1) % nx), bl[2] + ((k - 1) \div nx) >>]

\* The loop body for the cells of one hazard: store the id at the cell's
\* counter, then bump the counter.
RECURSIVE InsertCells(_, _, _, _)
InsertCells(st, ia, cells, k) ==
    IF k > Len(cells) THEN st
    ELSE LET hash == Hash(cells[k][1], cells[k][2])
         IN  InsertCells([grid |-> WriteSlot(st.grid, hash, CountAt(st.count, hash), ia),
                          count |-> Increment(st.count, hash),
                          used |-> st.used \cup {cells[k]}],
                         ia, cells, k + 1)

\* for ia = kObjectCount .. kObjectCount + kAvoidCount - 1
RECURSIVE BuildGrid(_, _, _)
BuildGrid(st, positions, ia) ==
    IF ia = kObjectCount + kAvoidCount THEN st
    ELSE BuildGrid(InsertCells(st, ia, FootprintCells(positions[ia]), 1),
                   positions, ia + 1)

\* The cell a regular entity looks into.  The second correction is assigned
\* to x (line 206): x becomes the corrected y, and y stays as divided.
QueryCell(p) ==
    LET x0 == WrapCell(ToUnsignedDiv(p.x - xMin * Unit, kGridCellSize[1]))
        y == ToUnsignedDiv(p.y - yMin * Unit, kGridCellSize[2])
        x == WrapCell(y)
    IN  << x, y >>

\* Faulty variant of TooClose for C2: the comparison is inverted.
TooCloseInverted(dx, dy) ==
    ~ ( /\ -kAvoidDistance < dx /\ dx < kAvoidDistance
        /\ -kAvoidDistance < dy /\ dy < kAvoidDistance
        /\ (dx * dx + dy * dy) - kAvoidDistance * kAvoidDistance < 0 )

\* (dx * dx + dy * dy) - kAvoidDistance * kAvoidDistance < 0.0f
\* The first two conjuncts follow from the third: they keep the squares of
\* far-apart entities out of the evaluation, as a float never overflows here.
TooClose(dx, dy) ==
    /\ -kAvoidDistance < dx /\ dx < kAvoidDistance
    /\ -kAvoidDistance < dy /\ dy < kAvoidDistance
    /\ (dx * dx + dy * dy) - kAvoidDistance * kAvoidDistance < 0

\* The reaction of entity io to the hazard slot content avoid.
React(objs, io, avoid, dt) ==
    LET vx == -(objs.m_Moves[io].velx)
        vy == -(objs.m_Moves[io].vely)
        my == objs.m_Positions[io]
        av == objs.m_Sprites[avoid]
    IN  [objs EXCEPT
          !.m_Moves[io] = [velx |-> vx, vely |-> vy],
          !.m_Positions[io] = [x |-> my.x + Nudge(vx, dt), y |-> my.y + Nudge(vy, dt)],
          !.m_Sprites[io] = [@ EXCEPT !.colorR = av.colorR, !.colorG = av.colorG,
                                      !.colorB = av.colorB]]

\* Faulty variant of ScanCount for C7: the scan runs over the bucket's whole
\* capacity.
ScanWholeBucket(counts, hash) == kAvoidCount

\* na of the bucket scan: the cell's counter, read once before the loop.
ScanCount(counts, hash) == CountAt(counts, hash)

\* for ia = 0 .. na - 1 over the bucket of cell hash
RECURSIVE ScanBucket(_, _, _, _, _, _, _)
ScanBucket(objs, io, grid, hash, ia, na, dt) ==
    IF ia = na THEN objs
    ELSE LET avoid == ReadSlot(grid, hash, ia)
             dx == objs.m_Positions[avoid].x - objs.m_Positions[io].x
             dy == objs.m_Positions[avoid].y - objs.m_Positions[io].y
         IN  ScanBucket(IF TooClose(dx, dy) THEN React(objs, io, avoid, dt) ELSE objs,
                        io, grid, hash, ia + 1, na, dt)

\* Faulty variant of QueryCount for C9: the query loop runs over every entity,
\* as the loop of MoveSystem does.
QueryCountAll == kObjectCount + kAvoidCount

\* no of the query loop: it runs over the regular entities only.
QueryCount == kObjectCount

\* for io = 0 .. no - 1
RECURSIVE QueryAll(_, _, _, _, _)
QueryAll(objs, io, grid, counts, dt) ==
    IF io = QueryCount THEN objs
    ELSE LET c == QueryCell(objs.m_Positions[io])
             hash == Hash(c[1], c[2])
         IN  QueryAll(ScanBucket(objs, io, grid, hash, 0, ScanCount(counts, hash), dt),
                      io + 1, grid, counts, dt)

QueryCells(objs) == {QueryCell(objs.m_Positions[io]) : io \in 0 .. (QueryCount - 1)}

\* One AvoidanceSystem::UpdateSystem call on a scene and the static storage
\* it finds: the scene, the storage and the counters it leaves, and the grid
\* coordinates it used.
AvoidanceSystemUpdate(objs, grid, dt) ==
    LET built == BuildGrid([grid |-> grid, count |-> FreshCounts, used |-> {}],
                           objs.m_Positions, kObjectCount)
    IN  [objs |-> QueryAll(objs, 0, built.grid, built.count, dt),
         grid |-> built.grid,
         count |-> built.count,
         used |-> built.used \cup QueryCells(objs)]

\* ------------------------------------------------------------ entry points
\* What the random draws of game_initialize can give, on the lattice.
\* A regular entity: any position within the bounds (either end included),
\* speed 0.5 .. 0.7 in any direction, any sprite index.
RegularStarts ==
    { [x |-> 10, y |-> 0, velx |-> -4, vely |-> -5, spriteIndex |-> 3],
      [x |-> 105, y |-> 0, velx |-> 5, vely |-> 0, spriteIndex |-> 4],
      [x |-> xMax * Unit, y |-> 630, velx |-> 4, vely |-> 5, spriteIndex |-> 5] }

\* A hazard: a position within 0.2 of the bounds, speed 0.1 .. 0.2, each colour
\* channel in 127 .. 255.
HazardStarts ==
    { [x |-> 0, y |-> 0, velx |-> 1, vely |-> 1,
       colorR |-> 200, colorG |-> 150, colorB |-> 128],
      [x |-> 100, y |-> 0, velx |-> -1, vely |-> -1,
       colorR |-> 130, colorG |-> 255, colorB |-> 160] }

\* game_initialize on a scene, with the draws of the entities whose identifier
\* lies inside the arrays (a write through any other identifier lands outside
\* them).  Loop index k gets AddEntity(g, k): the regular entities first.
Initialized(objs, reg, haz) ==
    LET sized == reserve(objs, PopulationSize)
        g == objs.m_IdGenerator
        k(go) == go - g
        isReg(go) == k(go) \in DOMAIN reg
        isHaz(go) == k(go) \in DOMAIN haz
    IN  [m_Positions |->
            [go \in DOMAIN sized.m_Positions |->
                IF isReg(go) THEN [x |-> reg[k(go)].x, y |-> reg[k(go)].y]
                ELSE IF isHaz(go) THEN [x |-> haz[k(go)].x, y |-> haz[k(go)].y]
                ELSE sized.m_Positions[go]],
         m_Sprites |->
            [go \in DOMAIN sized.m_Sprites |->
                IF isReg(go)
                THEN [colorR |-> 255, colorG |-> 255, colorB |-> 255,
                      spriteIndex |-> reg[k(go)].spriteIndex]
                ELSE IF isHaz(go)
                THEN [colorR |-> haz[k(go)].colorR, colorG |-> haz[k(go)].colorG,
                      colorB |-> haz[k(go)].colorB, spriteIndex |-> 255]
                ELSE sized.m_Sprites[go]],
         m_Moves |->
            [go \in DOMAIN sized.m_Moves |->
                IF isReg(go) THEN [velx |-> reg[k(go)].velx, vely |-> reg[k(go)].vely]
                ELSE IF isHaz(go) THEN [velx |-> haz[k(go)].velx, vely |-> haz[k(go)].vely]
                ELSE sized.m_Moves[go]],
         m_IdGenerator |-> g + PopulationSize]

\* The identifiers one game_initialize call obtains, by loop index.
IssuedIds(g) == [k \in 0 .. (PopulationSize - 1) |-> AddEntity(g, k)]

game_initialize ==
    /\ pc = "idle"
    /\ s_Objects.m_IdGenerator < MaxInitCalls * PopulationSize
    /\ LET g == s_Objects.m_IdGenerator
           inside == {k \in 0 .. (PopulationSize - 1) : AddEntity(g, k) < PopulationSize}
       IN  /\ \E reg \in [inside \cap RegularIds -> RegularStarts],
                 haz \in [inside \cap HazardIds -> HazardStarts] :
                 /\ s_Objects' = Initialized(s_Objects, reg, haz)
                 /\ twin' = Initialized(twin, reg, haz)
           /\ issued' = IssuedIds(g)
           /\ heapOverrun' = (heapOverrun \/ \E k \in 0 .. (PopulationSize - 1) :
                                                AddEntity(g, k) >= PopulationSize)
    /\ UNCHANGED << avoidEntityGrid, activeAvoidCount, cellsUsed, posData, spriteData,
                    returned, pc, deltaTime, frames, before, convNeg, twinLeftover,
                    twinPosData, twinSpriteData >>

game_destroy ==
    /\ pc = "idle"
    /\ UNCHANGED vars

\* game_update, statement by statement.  Calling it before game_initialize, or
\* after game_initialize has written outside the arrays, is undefined and is
\* not modelled.
game_update_Move(dt) ==
    /\ pc = "idle"
    /\ Size(s_Objects.m_Positions) = PopulationSize
    /\ ~heapOverrun
    /\ frames < MaxFrames
    /\ s_Objects' = MoveSystemUpdate(s_Objects, dt)
    /\ twin' = MoveSystemUpdate(twin, dt)
    /\ before' = s_Objects
    /\ deltaTime' = dt
    /\ frames' = frames + 1
    /\ pc' = "moved"
    /\ UNCHANGED << avoidEntityGrid, activeAvoidCount, cellsUsed, posData, spriteData,
                    returned, issued, heapOverrun, convNeg, twinLeftover,
                    twinPosData, twinSpriteData >>

\* What the second instance's static storage may hold when the pass starts.
Leftovers == {0, PopulationSize - 1}

game_update_Avoid ==
    /\ pc = "moved"
    /\ \E fill \in Leftovers :
          LET mine == AvoidanceSystemUpdate(s_Objects, avoidEntityGrid, deltaTime)
              other == AvoidanceSystemUpdate(twin, [fill |-> fill, at |-> << >>], deltaTime)
          IN  /\ s_Objects' = mine.objs
              /\ avoidEntityGrid' = mine.grid
              /\ activeAvoidCount' = mine.count
              /\ cellsUsed' = mine.used
              /\ twin' = other.objs
              /\ twinLeftover' = fill
    /\ before' = s_Objects
    /\ pc' = "avoided"
    /\ UNCHANGED << posData, spriteData, returned, deltaTime, frames, issued,
                    heapOverrun, convNeg, twinPosData, twinSpriteData >>

\* memcpy of size() elements
CopyOut(arr) == [i \in 0 .. (Size(arr) - 1) |-> arr[i]]

game_update_Copy ==
    /\ pc = "avoided"
    /\ posData' = CopyOut(s_Objects.m_Positions)
    /\ spriteData' = CopyOut(s_Objects.m_Sprites)
    /\ returned' = Size(s_Objects.m_Positions)
    /\ twinPosData' = CopyOut(twin.m_Positions)
    /\ twinSpriteData' = CopyOut(twin.m_Sprites)
    /\ pc' = "idle"
    /\ UNCHANGED << s_Objects, avoidEntityGrid, activeAvoidCount, cellsUsed, deltaTime,
                    frames, before, issued, heapOverrun, convNeg, twin, twinLeftover >>

Init ==
    /\ s_Objects = EmptyScene
    /\ avoidEntityGrid = ZeroedGrid
    /\ activeAvoidCount = << >>
    /\ cellsUsed = {}
    /\ posData = << >>
    /\ spriteData = << >>
    /\ returned = 0
    /\ pc = "idle"
    /\ deltaTime = 0
    /\ frames = 0
    /\ before = EmptyScene
    /\ issued = << >>
    /\ heapOverrun = FALSE
    /\ convNeg \in {"wrap", "saturate"}
    /\ twin = EmptyScene
    /\ twinLeftover = 0
    /\ twinPosData = << >>
    /\ twinSpriteData = << >>

Next ==
    \/ game_initialize
    \/ game_destroy
    \/ \E dt \in DeltaTimes : game_update_Move(dt)
    \/ game_update_Avoid
    \/ game_update_Copy

Spec == Init /\ [][Next]_vars

\* =================================================================== claims
Position(e) == s_Objects.m_Positions[e]
Move(e) == s_Objects.m_Moves[e]
Sprite(e) == s_Objects.m_Sprites[e]

\* Squared distance of two in-bounds positions, in lattice steps.
Dist2(p, q) == (p.x - q.x) * (p.x - q.x) + (p.y - q.y) * (p.y - q.y)

\* The hazard ids the rebuild of the current scene leaves in a cell's bucket.
BucketOf(cell) ==
    LET built == BuildGrid([grid |-> avoidEntityGrid, count |-> FreshCounts, used |-> {}],
                           s_Objects.m_Positions, kObjectCount)
        hash == Hash(cell[1], cell[2])
    IN  {ReadSlot(built.grid, hash, slot) : slot \in 0 .. (CountAt(built.count, hash) - 1)}

\* C1 (as claimed): when the avoidance pass starts, every hazard that is within
\* the bounds and closer than kAvoidDistance to a regular entity within the
\* bounds is in the bucket of the cell the query computes for that entity.
C1_QueryFindsEveryCloseHazard ==
    pc = "moved" =>
        \A io \in RegularIds, ia \in HazardIds :
            ( /\ InBounds(Position(io))
              /\ InBounds(Position(ia))
              /\ Dist2(Position(io), Position(ia)) < kAvoidDistance * kAvoidDistance )
            => ia \in BucketOf(QueryCell(Position(io)))

\* C2: a regular entity that is at least kAvoidDistance away from every hazard
\* when the avoidance pass tests it leaves the pass with the position, the
\* velocity and the sprite the Motion pass gave it; the Motion pass changes
\* no sprite.
C2_NoFalseReaction ==
    /\ pc = "moved" => s_Objects.m_Sprites = before.m_Sprites
    /\ pc = "avoided" =>
          \A io \in RegularIds :
              (\A ia \in HazardIds :
                  Dist2(before.m_Positions[io], before.m_Positions[ia])
                      >= kAvoidDistance * kAvoidDistance)
              => /\ Position(io) = before.m_Positions[io]
                 /\ Move(io) = before.m_Moves[io]
                 /\ Sprite(io) = before.m_Sprites[io]

\* C2 witness: the pass has run, one regular entity was far from every hazard
\* and another one reacted in the same pass.
C2_Witness ==
    /\ pc = "avoided"
    /\ \E io \in RegularIds :
          \A ia \in HazardIds :
              Dist2(before.m_Positions[io], before.m_Positions[ia])
                  >= kAvoidDistance * kAvoidDistance
    /\ \E io \in RegularIds : Sprite(io) # before.m_Sprites[io]

\* C3: right after every Motion pass every entity lies within the bounds.
C3_BoundsAfterMotion ==
    pc = "moved" => \A e \in EntityIds : InBounds(Position(e))

\* C3 witness: a Motion pass of a later frame has brought back an entity that
\* the Avoidance pass of the frame before had pushed out of the bounds.
C3_Witness ==
    /\ pc = "moved"
    /\ frames >= 2
    /\ \E e \in EntityIds : ~InBounds(before.m_Positions[e]) /\ InBounds(Position(e))

\* C4: after a rebuild no cell's counter exceeds the number of hazards.
C4_BucketCapacity ==
    \A hash \in DOMAIN activeAvoidCount : activeAvoidCount[hash] <= kAvoidCount

\* C4 witness: a rebuild has filled a bucket to its capacity.
C4_Witness ==
    \E hash \in DOMAIN activeAvoidCount : activeAvoidCount[hash] = kAvoidCount

\* C5 (as claimed): an entity that enters a Motion pass exactly at xMax with
\* velx > 0, deltaTime > 0, leaves it at xMax with velx < 0.
C5_ReflectsAtXMaxAlways ==
    pc = "moved" =>
        \A e \in EntityIds :
            ( /\ before.m_Positions[e].x = xMax * Unit
              /\ before.m_Moves[e].velx > 0
              /\ deltaTime > 0 )
            => Move(e).velx < 0 /\ Position(e).x = xMax * Unit

\* C5 (amended): for each face, an entity whose integrated position, as the
\* float the sum rounds to, lies beyond the face ends the pass on the face
\* with that axis's velocity negated once; an axis whose sum stays within the
\* bounds keeps the sum and its velocity.  In particular an entity at xMax
\* with velx > 0 reflects exactly when the rounded sum exceeds xMax.
C5_ReflectionOnRoundedSum ==
    LET AxisReflected(sum, vel, lo, hi, newPos, newVel) ==
            /\ sum < lo => newPos = lo /\ newVel = -vel
            /\ sum > hi => newPos = hi /\ newVel = -vel
            /\ (lo <= sum /\ sum <= hi) => newPos = sum /\ newVel = vel
    IN  pc = "moved" =>
            \A e \in EntityIds :
                /\ AxisReflected(before.m_Positions[e].x
                                    + RoundDiv(before.m_Moves[e].velx * deltaTime, TimeUnit),
                                 before.m_Moves[e].velx, xMin * Unit, xMax * Unit,
                                 Position(e).x, Move(e).velx)
                /\ AxisReflected(before.m_Positions[e].y
                                    + RoundDiv(before.m_Moves[e].vely * deltaTime, TimeUnit),
                                 before.m_Moves[e].vely, yMin * Unit, yMax * Unit,
                                 Position(e).y, Move(e).vely)

\* C5 witness: an entity that entered the pass at xMax with velx > 0 left it at
\* xMax with velx < 0, and reflected off the yMax face in the same pass.
C5_Witness ==
    /\ pc = "moved"
    /\ deltaTime > 0
    /\ \E e \in EntityIds :
          /\ before.m_Positions[e].x = xMax * Unit /\ before.m_Moves[e].velx > 0
          /\ Position(e).x = xMax * Unit /\ Move(e).velx < 0
          /\ before.m_Positions[e].y < yMax * Unit /\ before.m_Moves[e].vely > 0
          /\ Position(e).y = yMax * Unit /\ Move(e).vely < 0

\* C6: once game_initialize has run the three arrays hold R + H elements, and
\* every game_update call returns R + H.
C6_PopulationConserved ==
    /\ s_Objects.m_IdGenerator > 0 =>
          /\ Size(s_Objects.m_Positions) = kObjectCount + kAvoidCount
          /\ Size(s_Objects.m_Sprites) = kObjectCount + kAvoidCount
          /\ Size(s_Objects.m_Moves) = kObjectCount + kAvoidCount
    /\ (frames > 0 /\ pc = "idle") => returned = kObjectCount + kAvoidCount

\* C6 witness: a second game_update call has returned R + H.
C6_Witness ==
    /\ pc = "idle"
    /\ frames >= 2
    /\ returned = kObjectCount + kAvoidCount

\* C7: two instances with the same scene and the same deltaTime history fill
\* identical output buffers, whatever their static bucket storage held.
C7_Deterministic ==
    /\ posData = twinPosData
    /\ spriteData = twinSpriteData
    /\ twin = s_Objects

\* C7 witness: after the second frame, the two storages held different
\* leftovers, this instance's holds entries of an earlier frame, and a regular
\* entity has reacted to a hazard.
C7_Witness ==
    /\ pc = "idle"
    /\ frames >= 2
    /\ twinLeftover # avoidEntityGrid.fill
    /\ DOMAIN avoidEntityGrid.at # {}
    /\ \E io \in RegularIds : posData[io] # before.m_Positions[io]

\* C8 (as claimed): every grid coordinate the pass uses to reach a bucket is in
\* 0 .. kCellCount - 1 on both axes, so every bucket index is in
\* 0 .. kCellCount * kCellCount - 1.
C8_GridCoordinatesInRange ==
    \A c \in cellsUsed :
        /\ c[1] \in 0 .. (kCellCount - 1)
        /\ c[2] \in 0 .. (kCellCount - 1)
        /\ Hash(c[1], c[2]) \in 0 .. (kCellCount * kCellCount - 1)

\* C9 (as claimed): every position game_update writes to the output buffer lies
\* within the bounds.
C9_ExportedInBounds ==
    (pc = "idle" /\ frames > 0) => \A e \in EntityIds : InBounds(posData[e])

\* C9 (amended): every exported position lies within the bounds, except that
\* of a regular entity whose position the Avoidance pass of that call changed.
C9_ExportedInBoundsUnlessNudged ==
    (pc = "idle" /\ frames > 0) =>
        \A e \in EntityIds :
            \/ InBounds(posData[e])
            \/ e \in RegularIds /\ posData[e] # before.m_Positions[e]

\* C9 witness: a call has exported a nudged regular entity outside the bounds
\* next to entities it exported within them.
C9_Witness ==
    /\ pc = "idle"
    /\ frames > 0
    /\ \E e \in RegularIds : ~InBounds(posData[e])
    /\ \E e \in RegularIds : InBounds(posData[e])

\* C10 (as claimed): every identifier game_initialize obtains is below R + H,
\* the regular entities get 0 .. R - 1 and the hazards R .. R + H - 1.
C10_IdentifiersInRange ==
    \A k \in DOMAIN issued :
        /\ issued[k] \in EntityIds
        /\ k \in RegularIds => issued[k] \in RegularIds
        /\ k \in HazardIds => issued[k] \in HazardIds

====
